---- MODULE Spec2Model ----
(***************************************************************************)
(* State-machine model of src/entities/uav_entities.py: Event, Packet,     *)
(* Depot and Drone of the drone-network simulator.                         *)
(*                                                                         *)
(* Entities are kept in two tables, events and packets; the index of an   *)
(* entry is its identifier (the source uses id(self), which is unique     *)
(* among live objects, and every event and packet stays referenced by the *)
(* metrics sets).  Python lists of packets are sequences of packet         *)
(* identifiers, so aliasing of one packet object by several lists is kept. *)
(* Coordinates are pairs of integers; the configurations place every       *)
(* point on one axis-parallel line, where the Euclidean distance and the   *)
(* linear interpolation of the source are exact in integer arithmetic.     *)
(***************************************************************************)
EXTENDS Integers, Sequences, FiniteSets, TLC

\* ------------------------------------------------------------- bounds
MaxPackets == 2      \* packets ever constructed
MaxStep == 2         \* cur_step arguments range over 0..MaxStep
MaxList == 2         \* length of the list arguments of accept/remove
MaxMoves == 6        \* move() calls
MaxOffloads == 3     \* entries of the depot log
MaxHops == 4         \* add_hop calls on one packet
MaxFeelMoves == 3    \* move() calls while sensing
MaxCharges == 3      \* decrease_energy calls made outside move()
MaxEnergyMoves == 4  \* move() calls while the ledger is watched
MaxEntities == 2     \* entities built with chosen identifiers
MaxTripMoves == 14   \* move() calls of a round trip to the depot
TripTicks == 7       \* ticks that are enough for any leg of a round trip
NumDrones == 2       \* drones registered in simulator.drones

\* ------------------------------------------------- program constants
drone_max_energy == 1000   \* simulator.drone_max_energy
TS_DURATION == 1           \* config.TS_DURATION
drone_max_buffer_size == 1 \* simulator.drone_max_buffer_size

Steps == 0 .. MaxStep
DroneIds == 0 .. (NumDrones - 1)
Self == 0                  \* identifier of the drone whose state is modelled
Other == 1                 \* identifier of a second drone

\* ------------------------------------------------- values and helpers
\* None, np.nan and numbers, kept apart from each other.
None == [tag |-> "None", val |-> 0]
NaN == [tag |-> "nan", val |-> 0]
Num(x) == [tag |-> "num", val |-> x]

NoCoords == << >>          \* last_mission_coords = None

Min2(a, b) == IF a <= b THEN a ELSE b

Abs(x) == IF x < 0 THEN 0 - x ELSE x

ISqrt(n) == CHOOSE r \in 0 .. n : r * r <= n /\ n < (r + 1) * (r + 1)

\* utilities.euclidean_distance
euclidean_distance(p, q) ==
    ISqrt((p[1] - q[1]) * (p[1] - q[1]) + (p[2] - q[2]) * (p[2] - q[2]))

\* np.nanmin([a, b]) with b a number
nanmin_wrong(a, d) == IF a.tag = "nan" THEN Num(d) ELSE a
nanmin(a, d) == IF a.tag = "nan" THEN Num(d) ELSE Num(Min2(a.val, d))

\* strategy names as sequences of characters
GEO == <<"G", "E", "O">>
RND == <<"R", "N", "D">>
GEOS == <<"G", "E", "O", "S">>
QL == <<"Q", "L">>
EOR == <<"E", "O", "R">>

\* "GEO" "RND" "GEOS": adjacent string literals are one string
ExemptLiteral == GEO \o RND \o GEOS

\* Python's  s in t  on strings
IsSubstring(s, t) ==
    \E i \in 0 .. (Len(t) - Len(s)) : SubSeq(t, i + 1, i + Len(s)) = s

\* self.simulator.routing_algorithm.name not in "GEO" "RND" "GEOS"
broadcasts_feedback(name) == ~IsSubstring(name, ExemptLiteral)

VARIABLES
    sim,            \* the simulator: routing_algorithm name, drones
    drone,          \* the fields of the Drone
    depot,          \* the fields of the Depot
    events,         \* table of Event objects, index = identifier
    packets,        \* table of Packet objects, index = identifier
    metrics,        \* simulator.metrics
    feedback_calls, \* the feedback calls made by the handler invoked last
    add_hop_calls,  \* per packet: the drones passed to add_hop, in order
    move_calls,     \* number of calls of Drone.move
    last_call,      \* the handler invoked last and its arguments
    aborted,        \* exit(1) was called
    entities,       \* table of plain Entity objects (and subclass instances)
    diverted_from   \* the point a diversion took the drone away from, until
                    \* it is back there (NoCoords otherwise)

vars == <<sim, drone, depot, events, packets, metrics, feedback_calls,
          add_hop_calls, move_calls, last_call, aborted, entities,
          diverted_from>>

\* ------------------------------------------------------------- Event
\* Event.__init__, under simulator.event_duration = duration
Event_init(coords, current_time, duration, deadline) ==
    [coords |-> coords,
     current_time |-> current_time,
     deadline |-> IF deadline = None THEN current_time + duration
                  ELSE deadline.val]

\* the metrics side of Event.__init__: GENERATED_EVENTS
Event_registered(coords, current_time) ==
    ~(coords = <<-1, -1>>) /\ ~(current_time = -1)

\* Event.is_expired
Event_is_expired_wrong(ev, cur_step) == cur_step >= ev.deadline
Event_is_expired(ev, cur_step) == cur_step > ev.deadline

\* ------------------------------------------------------------ Packet
\* Packet.__init__ / DataPacket.__init__ with an event_ref
Packet_init(time_step_creation, event_ref) ==
    [time_step_creation |-> time_step_creation,
     event_ref |-> event_ref,
     TTL |-> -1,
     last_2_hops |-> << >>,
     time_delivery |-> None]

\* Packet.add_hop, with increase_TTL_hops
Packet_add_hop_wrong(pck, d) ==
    [pck EXCEPT !.last_2_hops = Append(pck.last_2_hops, d),
                !.TTL = pck.TTL + 1]
Packet_add_hop(pck, d) ==
    [pck EXCEPT !.last_2_hops =
                    Append(IF Len(pck.last_2_hops) = 2
                           THEN Tail(pck.last_2_hops)
                           ELSE pck.last_2_hops, d),
                !.TTL = pck.TTL + 1]

\* Packet.get_TTL
get_TTL(p) == packets[p].TTL

\* Packet.is_expired, on the tables evs and pcks
Packet_is_expired(evs, pcks, p, cur_step) ==
    cur_step > evs[pcks[p].event_ref].deadline

\* Entity.__eq__ on the events of two packets: same identifier
same_event(pcks, p, q) == pcks[p].event_ref = pcks[q].event_ref


\* ------------------------------------------------------------- Drone
\* the three mobility states of a drone d
ON_MISSION(d) == ~d.move_routing /\ ~d.come_back_to_mission
DIVERTING_TO_DEPOT(d) == d.move_routing
RETURNING_TO_MISSION(d) == ~d.move_routing /\ d.come_back_to_mission

\* Drone.__init__ (with Entity.__init__: coords = path[0])
Drone_init(path, speed, depot_coords) ==
    [identifier |-> Self,
     coords |-> path[1],
     path |-> path,
     speed |-> speed,
     depot_coords |-> depot_coords,
     buffer_max_size |-> drone_max_buffer_size,
     residual_energy |-> drone_max_energy,
     initial_energy |-> drone_max_energy,
     come_back_to_mission |-> FALSE,
     last_move_routing |-> FALSE,
     accumulated_moving_energy |-> 0,
     accumulated_hello_energy |-> 0,
     accumulated_send_energy |-> 0,
     tightest_event_deadline |-> None,
     current_waypoint |-> 0,
     buffer |-> << >>,
     distance_from_depot |-> 0,
     move_routing |-> FALSE,
     last_mission_coords |-> NoCoords]

\* the test of Drone.feel_event: the packet is kept
listens_wrong(d) == ~d.move_routing
listens(d) == ~d.move_routing /\ ~d.come_back_to_mission

\* Drone.is_known_packet on a buffer buf
is_known_packet_wrong(pcks, buf, p) ==
    \E i \in 1 .. Len(buf) : buf[i] = p
is_known_packet(pcks, buf, p) ==
    \E i \in 1 .. Len(buf) : same_event(pcks, buf[i], p)

\* the loop of Drone.accept_packets, from buffer buf over the list ps
RECURSIVE accept_loop(_, _, _)
accept_loop(pcks, buf, ps) ==
    IF ps = << >> THEN buf
    ELSE accept_loop(pcks,
                     IF is_known_packet(pcks, buf, Head(ps)) THEN buf
                     ELSE Append(buf, Head(ps)),
                     Tail(ps))

\* list.remove(p): drops the first entry equal to p (Entity.__eq__)
RECURSIVE list_remove(_, _)
list_remove(buf, p) ==
    IF buf = << >> THEN << >>
    ELSE IF Head(buf) = p THEN Tail(buf)
    ELSE <<Head(buf)>> \o list_remove(Tail(buf), p)

\* the loop of Drone.remove_packets
RECURSIVE remove_loop(_, _)
remove_loop(buf, ps) ==
    IF ps = << >> THEN buf
    ELSE remove_loop(IF \E i \in 1 .. Len(buf) : buf[i] = Head(ps)
                     THEN list_remove(buf, Head(ps)) ELSE buf,
                     Tail(ps))

\* one feedback call per drone of simulator.drones, in list order
RECURSIVE feedback_broadcast_wrong(_, _, _, _, _)
feedback_broadcast_wrong(k, id_event, delay, outcome, reward) ==
    IF k = NumDrones THEN << >>
    ELSE (IF k = Self
          THEN <<[to |-> k, drone |-> Self, id_event |-> id_event,
                  delay |-> delay, outcome |-> outcome, reward |-> reward]>>
          ELSE << >>)
         \o feedback_broadcast_wrong(k + 1, id_event, delay, outcome, reward)
RECURSIVE feedback_broadcast(_, _, _, _, _)
feedback_broadcast(k, id_event, delay, outcome, reward) ==
    IF k = NumDrones THEN << >>
    ELSE <<[to |-> k, drone |-> Self, id_event |-> id_event, delay |-> delay,
            outcome |-> outcome, reward |-> reward]>>
         \o feedback_broadcast(k + 1, id_event, delay, outcome, reward)

\* the branch of update_packets that keeps a packet
keeps_packet_wrong(evs, pcks, p, cur_step) ==
    ~(cur_step + 1 > evs[pcks[p].event_ref].deadline)
keeps_packet(evs, pcks, p, cur_step) ==
    ~Packet_is_expired(evs, pcks, p, cur_step)

\* the loop of Drone.update_packets over the buffer rest, from the
\* accumulated st = [tmp_buffer, tightest_event_deadline, fb]
RECURSIVE update_loop(_, _, _, _, _, _)
update_loop(evs, pcks, simulator, rest, cur_step, st) ==
    IF rest = << >> THEN st
    ELSE LET pck == Head(rest)
             ev == evs[pcks[pck].event_ref]
         IN update_loop(evs, pcks, simulator, Tail(rest), cur_step,
                IF keeps_packet(evs, pcks, pck, cur_step)
                THEN [st EXCEPT
                        !.tmp_buffer = Append(st.tmp_buffer, pck),
                        !.tightest_event_deadline =
                            nanmin(st.tightest_event_deadline, ev.deadline)]
                ELSE IF broadcasts_feedback(simulator.routing_algorithm)
                THEN [st EXCEPT
                        !.fb = st.fb \o feedback_broadcast(0,
                                   pcks[pck].event_ref,
                                   simulator.event_duration, -1, -100)]
                ELSE st)

\* ((1 - t) * p0 + t * p1) per coordinate, with t = distance / all_distance
interpolate(p0, p1, distance, all_distance) ==
    <<((all_distance - distance) * p0[1] + distance * p1[1]) \div all_distance,
      ((all_distance - distance) * p0[2] + distance * p1[2]) \div all_distance>>

\* path[k] of the source (lists are indexed from 0, also by -1 + 1)
waypoint(d, k) == d.path[k + 1]

\* Drone.decrease_energy
decrease_energy_wrong(d, action) ==
    LET cost == IF action = "transmission" THEN 100
                ELSE IF action = "move" THEN d.speed * 100
                ELSE IF action = "hello" THEN 10 ELSE 0
        left == IF d.residual_energy - cost < 0 THEN 0
                ELSE d.residual_energy - cost
    IN IF action = "transmission"
       THEN [d EXCEPT !.residual_energy = left,
                      !.accumulated_send_energy = d.accumulated_send_energy + 100]
       ELSE IF action = "move"
       THEN [d EXCEPT !.residual_energy = left,
                      !.accumulated_moving_energy =
                          d.accumulated_moving_energy + d.speed * 100]
       ELSE IF action = "hello"
       THEN [d EXCEPT !.residual_energy = left,
                      !.accumulated_hello_energy = d.accumulated_hello_energy + 10]
       ELSE d
decrease_energy(d, action) ==
    IF action = "transmission"
    THEN [d EXCEPT !.residual_energy = d.residual_energy - 100,
                   !.accumulated_send_energy = d.accumulated_send_energy + 100]
    ELSE IF action = "move"
    THEN [d EXCEPT !.residual_energy = d.residual_energy - d.speed * 100,
                   !.accumulated_moving_energy =
                       d.accumulated_moving_energy + d.speed * 100]
    ELSE IF action = "hello"
    THEN [d EXCEPT !.residual_energy = d.residual_energy - 10,
                   !.accumulated_hello_energy = d.accumulated_hello_energy + 10]
    ELSE d

\* the result of a step of move(): the drone, and whether exit(1) was called
Done(d) == [drone |-> d, exit |-> FALSE]
Exit(d) == [drone |-> d, exit |-> TRUE]

\* Drone.__update_position
update_position_wrong(d, p1) ==
    IF d.come_back_to_mission
    THEN [d EXCEPT !.come_back_to_mission = FALSE,
                   !.coords = waypoint(d, d.current_waypoint + 1),
                   !.current_waypoint = d.current_waypoint + 1]
    ELSE [d EXCEPT !.current_waypoint = d.current_waypoint + 1,
                   !.coords = waypoint(d, d.current_waypoint + 1)]
update_position(d, p1) ==
    IF d.come_back_to_mission
    THEN [d EXCEPT !.come_back_to_mission = FALSE, !.coords = p1]
    ELSE [d EXCEPT !.current_waypoint = d.current_waypoint + 1,
                   !.coords = waypoint(d, d.current_waypoint + 1)]

\* the wrap of the waypoint index at the head of __move_to_mission
wrap_waypoint(d) ==
    IF d.current_waypoint >= Len(d.path) - 1
    THEN [d EXCEPT !.current_waypoint = -1]
    ELSE d

\* the movement of __move_to_mission from p0 toward p1
advance_wrong(d, p0, p1, distance, all_distance) ==
    IF all_distance = 0 \/ distance = 0 THEN Done(update_position(d, p1))
    ELSE IF distance <= 0 THEN Exit(d)
    ELSE Done([d EXCEPT !.coords =
                   interpolate(p0, p1, distance, all_distance)])
advance(d, p0, p1, distance, all_distance) ==
    IF all_distance = 0 \/ distance = 0 THEN Done(update_position(d, p1))
    ELSE IF distance >= all_distance THEN Done(update_position(d, p1))
    ELSE IF distance <= 0 THEN Exit(d)
    ELSE Done([d EXCEPT !.coords =
                   interpolate(p0, p1, distance, all_distance)])

\* Drone.__move_to_mission
move_to_mission(d0, time) ==
    LET d == wrap_waypoint(d0)
        p0 == d.coords
        p1 == IF d.come_back_to_mission THEN d.last_mission_coords
              ELSE waypoint(d, d.current_waypoint + 1)
    IN advance(d, p0, p1, time * d.speed, euclidean_distance(p0, p1))

\* Drone.__move_to_depot
move_to_depot(d, time) ==
    LET p0 == d.coords
        p1 == d.depot_coords
        all_distance == euclidean_distance(p0, p1)
        distance == time * d.speed
    IN IF all_distance = 0 THEN Done([d EXCEPT !.move_routing = FALSE])
       ELSE IF distance >= all_distance THEN Done([d EXCEPT !.coords = p1])
       ELSE IF distance <= 0 THEN Exit(d)
       ELSE Done([d EXCEPT !.coords =
                      interpolate(p0, p1, distance, all_distance)])

\* the branch of Drone.move on move_routing, up to the movement
move_branch(d, time) ==
    IF d.move_routing
    THEN move_to_depot(
             IF ~d.last_move_routing
             THEN [d EXCEPT !.last_mission_coords = d.coords] ELSE d, time)
    ELSE move_to_mission(
             IF d.last_move_routing
             THEN [d EXCEPT !.come_back_to_mission = TRUE] ELSE d, time)

\* ------------------------------------------------------- the handlers
\* the record of a call: the handler and its arguments, as a tuple
Call(op, arg) == [op |-> op, arg |-> arg]

\* an optional number as a tuple: None is the empty one
Opt(x) == IF x = None THEN << >> ELSE <<x.val>>

\* Drone.feel_event(cur_step)
feel_event(cur_step) ==
    /\ ~aborted
    /\ Len(packets) < MaxPackets
    /\ LET ev == Event_init(drone.coords, cur_step, sim.event_duration, None)
           e == Len(events) + 1
           pk == Packet_add_hop(Packet_init(cur_step, e), Self)
           p == Len(packets) + 1
           listened == listens(drone)
       IN /\ events' = Append(events, ev)
          /\ packets' = Append(packets, pk)
          /\ add_hop_calls' = Append(add_hop_calls, <<Self>>)
          /\ drone' = IF listened
                      THEN [drone EXCEPT !.buffer = Append(drone.buffer, p)]
                      ELSE drone
          /\ metrics' =
               [metrics EXCEPT
                  !.events = IF Event_registered(drone.coords, cur_step)
                             THEN metrics.events \cup {e}
                             ELSE metrics.events,
                  !.drones_packets = metrics.drones_packets \cup {p},
                  !.all_data_packets_in_simulation =
                      IF listened
                      THEN metrics.all_data_packets_in_simulation + 1
                      ELSE metrics.all_data_packets_in_simulation,
                  !.events_not_listened =
                      IF listened THEN metrics.events_not_listened
                      ELSE metrics.events_not_listened \cup {e}]
    /\ last_call' = Call("feel_event", <<cur_step>>)
    /\ feedback_calls' = << >>
    /\ UNCHANGED <<entities, diverted_from>>
    /\ UNCHANGED <<sim, depot, move_calls, aborted>>

\* Event.as_packet(time_step_creation, d) on an existing event e: the
\* packet another drone d builds for the event
as_packet(e, time_step_creation, d) ==
    /\ ~aborted
    /\ Len(packets) < MaxPackets
    /\ e \in 1 .. Len(events)
    /\ LET p == Len(packets) + 1
       IN /\ packets' = Append(packets,
                Packet_add_hop(Packet_init(time_step_creation, e), d))
          /\ add_hop_calls' = Append(add_hop_calls, <<d>>)
          /\ metrics' = [metrics EXCEPT
                           !.drones_packets = metrics.drones_packets \cup {p}]
    /\ last_call' = Call("as_packet", << >>)
    /\ feedback_calls' = << >>
    /\ UNCHANGED <<entities, diverted_from>>
    /\ UNCHANGED <<sim, drone, depot, events, move_calls, aborted>>

\* how many entries of the list ps name an event that the buffer buf holds or
\* that an earlier entry of ps names
repeated_events(pcks, buf, ps) ==
    Cardinality({i \in 1 .. Len(ps) :
        \/ \E k \in 1 .. Len(buf) : same_event(pcks, buf[k], ps[i])
        \/ \E j \in 1 .. (i - 1) : same_event(pcks, ps[j], ps[i])})

\* Drone.accept_packets(ps)
accept_packets(ps) ==
    /\ ~aborted
    /\ drone' = [drone EXCEPT !.buffer = accept_loop(packets, drone.buffer, ps)]
    /\ last_call' = Call("accept_packets",
           <<Len(ps), repeated_events(packets, drone.buffer, ps)>>)
    /\ feedback_calls' = << >>
    /\ UNCHANGED <<entities, diverted_from>>
    /\ UNCHANGED <<sim, depot, events, packets, metrics, add_hop_calls,
                   move_calls, aborted>>

\* Drone.remove_packets(ps)
remove_packets(ps) ==
    /\ ~aborted
    /\ drone' = [drone EXCEPT !.buffer = remove_loop(drone.buffer, ps)]
    /\ last_call' = Call("remove_packets", << >>)
    /\ feedback_calls' = << >>
    /\ UNCHANGED <<entities, diverted_from>>
    /\ UNCHANGED <<sim, depot, events, packets, metrics, add_hop_calls,
                   move_calls, aborted>>

\* the end of Drone.update_packets: move_routing of drone d once the buffer
\* is tmp_buffer
diversion_after_wrong(d, tmp_buffer) == FALSE
diversion_after(d, tmp_buffer) ==
    IF Len(tmp_buffer) = 0 THEN FALSE ELSE d.move_routing

\* Drone.update_packets(cur_step); the record of the call also tells whether
\* it has cleared a move_routing that was set
update_packets(cur_step) ==
    /\ ~aborted
    /\ LET st == update_loop(events, packets, sim, drone.buffer, cur_step,
                             [tmp_buffer |-> << >>,
                              tightest_event_deadline |-> NaN,
                              fb |-> << >>])
       IN /\ drone' = [drone EXCEPT
                         !.buffer = st.tmp_buffer,
                         !.tightest_event_deadline = st.tightest_event_deadline,
                         !.move_routing = diversion_after(drone, st.tmp_buffer)]
          /\ feedback_calls' = st.fb
          /\ last_call' = Call("update_packets",
                 <<cur_step,
                   IF drone.move_routing
                      /\ ~diversion_after(drone, st.tmp_buffer)
                   THEN 1 ELSE 0>>)
    /\ UNCHANGED <<entities, diverted_from>>
    /\ UNCHANGED <<sim, depot, events, packets, metrics, add_hop_calls,
                   move_calls, aborted>>

\* Drone.routing: refreshes distance_from_depot and delegates to the
\* strategy, which decides whether the drone diverts (move_routing)
routing(b) ==
    /\ ~aborted
    /\ drone' = [drone EXCEPT
                   !.distance_from_depot =
                       euclidean_distance(drone.depot_coords, drone.coords),
                   !.move_routing = b]
    /\ last_call' = Call("routing", << >>)
    /\ feedback_calls' = << >>
    /\ UNCHANGED <<entities, diverted_from>>
    /\ UNCHANGED <<sim, depot, events, packets, metrics, add_hop_calls,
                   move_calls, aborted>>

\* the point a diversion has taken the drone d away from and to which it
\* has to come back: the last_mission_coords recorded by the diverting ticks
\* of move() that displaced it, until a tick puts it on that point again
\* (NoCoords otherwise); r is the result of the tick, from the point so far
displaced_from(d, r, from) ==
    IF r.exit THEN from
    ELSE IF r.drone.coords = r.drone.last_mission_coords THEN NoCoords
    ELSE IF d.move_routing /\ r.drone.coords # d.coords
    THEN r.drone.last_mission_coords
    ELSE from

\* Drone.move(time), any number of times
move_tick(time) ==
    /\ ~aborted
    /\ LET r == move_branch(drone, time)
       IN /\ aborted' = r.exit
          /\ drone' = IF r.exit THEN r.drone
                      ELSE decrease_energy(
                               [r.drone EXCEPT !.last_move_routing =
                                                   r.drone.move_routing],
                               "move")
          /\ metrics' =
               [metrics EXCEPT
                  !.time_on_active_routing =
                      IF drone.move_routing \/ drone.come_back_to_mission
                      THEN metrics.time_on_active_routing + 1
                      ELSE metrics.time_on_active_routing,
                  !.time_on_mission =
                      IF ~drone.move_routing /\ ~r.exit
                      THEN metrics.time_on_mission + 1
                      ELSE metrics.time_on_mission]
          /\ diverted_from' = displaced_from(drone, r, diverted_from)
    /\ move_calls' = move_calls + 1
    /\ last_call' = Call("move", <<time>>)
    /\ feedback_calls' = << >>
    /\ UNCHANGED <<sim, depot, events, packets, add_hop_calls, entities>>

\* Drone.move(time), at most MaxMoves times
move(time) == move_calls < MaxMoves /\ move_tick(time)

\* drones_packets_to_depot_list.append((pck, cur_step))
delivered_append_wrong(list, entry) ==
    IF \E i \in 1 .. Len(list) : list[i] = entry THEN list
    ELSE Append(list, entry)
delivered_append(list, entry) == Append(list, entry)

\* the loop of Depot.transfer_notified_packets over the list rest, from the
\* accumulated st = [pcks, delivered_set, delivered_list, fb]
RECURSIVE transfer_loop(_, _, _, _, _)
transfer_loop(evs, simulator, rest, cur_step, st) ==
    IF rest = << >> THEN st
    ELSE LET pck == Head(rest)
             ev == evs[st.pcks[pck].event_ref]
         IN transfer_loop(evs, simulator, Tail(rest), cur_step,
                [pcks |-> [st.pcks EXCEPT ![pck].time_delivery = Num(cur_step)],
                 delivered_set |-> st.delivered_set \cup {<<pck, cur_step>>},
                 delivered_list |->
                     delivered_append(st.delivered_list, <<pck, cur_step>>),
                 fb |-> IF broadcasts_feedback(simulator.routing_algorithm)
                        THEN st.fb \o feedback_broadcast(0,
                                 st.pcks[pck].event_ref,
                                 cur_step - ev.current_time, 1, 100)
                        ELSE st.fb])

\* the depot log after  self.__buffer += packets_to_offload
depot_extend_wrong(log, packets_to_offload) ==
    log \o SelectSeq(packets_to_offload,
                     LAMBDA p : ~(\E i \in 1 .. Len(log) : log[i] = p))
depot_extend(log, packets_to_offload) == log \o packets_to_offload

\* Depot.transfer_notified_packets(drone, cur_step)
transfer_notified_packets(cur_step) ==
    /\ ~aborted
    /\ Len(depot.buffer) + Len(drone.buffer) <= MaxOffloads
    /\ LET packets_to_offload == drone.buffer
           st == transfer_loop(events, sim, packets_to_offload, cur_step,
                     [pcks |-> packets,
                      delivered_set |-> metrics.drones_packets_to_depot,
                      delivered_list |-> metrics.drones_packets_to_depot_list,
                      fb |-> << >>])
       IN /\ depot' = [depot EXCEPT
                         !.buffer = depot_extend(depot.buffer, packets_to_offload)]
          /\ packets' = st.pcks
          /\ metrics' =
               [metrics EXCEPT
                  !.drones_packets_to_depot = st.delivered_set,
                  !.drones_packets_to_depot_list = st.delivered_list]
          /\ feedback_calls' = st.fb
    /\ last_call' = Call("transfer_notified_packets", <<cur_step>>)
    /\ UNCHANGED <<entities, diverted_from>>
    /\ UNCHANGED <<sim, drone, events, add_hop_calls, move_calls, aborted>>

\* Drone.empty_buffer
empty_buffer ==
    /\ ~aborted
    /\ drone' = [drone EXCEPT !.buffer = << >>]
    /\ last_call' = Call("empty_buffer", << >>)
    /\ feedback_calls' = << >>
    /\ UNCHANGED <<entities, diverted_from>>
    /\ UNCHANGED <<sim, depot, events, packets, metrics, add_hop_calls,
                   move_calls, aborted>>

\* Event(coords, current_time, simulator, deadline)
Event_new(coords, current_time, deadline) ==
    /\ ~aborted
    /\ events' = Append(events,
           Event_init(coords, current_time, sim.event_duration, deadline))
    /\ metrics' = [metrics EXCEPT
                     !.events = IF Event_registered(coords, current_time)
                                THEN metrics.events \cup {Len(events) + 1}
                                ELSE metrics.events]
    /\ last_call' = Call("Event", Opt(deadline))
    /\ feedback_calls' = << >>
    /\ UNCHANGED <<entities, diverted_from>>
    /\ UNCHANGED <<sim, drone, depot, packets, add_hop_calls, move_calls, aborted>>

\* a call of Event.is_expired(cur_step) on event e; the result is recorded
is_expired(e, cur_step) ==
    /\ ~aborted
    /\ e \in 1 .. Len(events)
    /\ last_call' = Call("is_expired",
           <<e, cur_step,
             IF Event_is_expired(events[e], cur_step) THEN 1 ELSE 0>>)
    /\ feedback_calls' = << >>
    /\ UNCHANGED <<entities, diverted_from>>
    /\ UNCHANGED <<sim, drone, depot, events, packets, metrics, add_hop_calls,
                   move_calls, aborted>>

\* DataPacket(time_step_creation, simulator, event_ref = e)
DataPacket_new(time_step_creation, e) ==
    /\ ~aborted
    /\ Len(packets) < MaxPackets
    /\ e \in 1 .. Len(events)
    /\ packets' = Append(packets, Packet_init(time_step_creation, e))
    /\ add_hop_calls' = Append(add_hop_calls, << >>)
    /\ metrics' = [metrics EXCEPT
                     !.drones_packets =
                         metrics.drones_packets \cup {Len(packets) + 1}]
    /\ last_call' = Call("DataPacket", <<time_step_creation, e>>)
    /\ feedback_calls' = << >>
    /\ UNCHANGED <<entities, diverted_from>>
    /\ UNCHANGED <<sim, drone, depot, events, move_calls, aborted>>

\* Packet.add_hop(d) on packet p
add_hop(p, d) ==
    /\ ~aborted
    /\ p \in 1 .. Len(packets)
    /\ Len(add_hop_calls[p]) < MaxHops
    /\ packets' = [packets EXCEPT ![p] = Packet_add_hop(packets[p], d)]
    /\ add_hop_calls' = [add_hop_calls EXCEPT ![p] = Append(add_hop_calls[p], d)]
    /\ last_call' = Call("add_hop", <<p, d>>)
    /\ feedback_calls' = << >>
    /\ UNCHANGED <<entities, diverted_from>>
    /\ UNCHANGED <<sim, drone, depot, events, metrics, move_calls, aborted>>

\* Packet.decrease_deadline(delay) on packet p
decrease_deadline(p, delay) ==
    /\ ~aborted
    /\ p \in 1 .. Len(packets)
    /\ LET e == packets[p].event_ref
           deadline == events[e].deadline - ((delay \div TS_DURATION) + 1)
       IN /\ deadline >= 0
          /\ events' = [events EXCEPT ![e].deadline = deadline]
    /\ last_call' = Call("decrease_deadline", <<p, delay>>)
    /\ feedback_calls' = << >>
    /\ UNCHANGED <<entities, diverted_from>>
    /\ UNCHANGED <<sim, drone, depot, packets, metrics, add_hop_calls,
                   move_calls, aborted>>

\* the action names passed to Drone.decrease_energy, and one it ignores
EnergyActions == <<"transmission", "move", "hello", "sense">>

\* a call of Drone.decrease_energy(EnergyActions[a]) from outside move()
Drone_decrease_energy(a) ==
    /\ ~aborted
    /\ (drone.initial_energy - drone.residual_energy)
           < MaxCharges * 100 + move_calls * drone.speed * 100
    /\ drone' = decrease_energy(drone, EnergyActions[a])
    /\ last_call' = Call("decrease_energy", <<a>>)
    /\ feedback_calls' = << >>
    /\ UNCHANGED <<entities, diverted_from>>
    /\ UNCHANGED <<sim, depot, events, packets, metrics, add_hop_calls,
                   move_calls, aborted>>

\* Drone.packet_is_expiring on a drone of positive speed: 1 for True, 0 for
\* False, -1 when tightest_event_deadline is still None and the subtraction
\* raises; a comparison with nan is False
packet_is_expiring_wrong(d, simulator, cur_step) ==
    IF d.tightest_event_deadline = None THEN -1
    ELSE IF d.tightest_event_deadline = NaN THEN 0
    ELSE LET event_time_to_dead ==
                 (d.tightest_event_deadline.val - cur_step)
                     * simulator.time_step_duration
         IN IF /\ (event_time_to_dead - 5) * d.speed < d.distance_from_depot
               /\ d.distance_from_depot < event_time_to_dead * d.speed
            THEN 1 ELSE 0
packet_is_expiring_result(d, simulator, cur_step) ==
    IF d.tightest_event_deadline = None THEN -1
    ELSE IF d.tightest_event_deadline = NaN THEN 0
    ELSE LET event_time_to_dead ==
                 (d.tightest_event_deadline.val - cur_step)
                     * simulator.time_step_duration
         IN IF /\ (event_time_to_dead - 5) * d.speed < d.distance_from_depot
               /\ d.distance_from_depot <= event_time_to_dead * d.speed
            THEN 1 ELSE 0

\* a call of Drone.packet_is_expiring(cur_step); the result is recorded
packet_is_expiring(cur_step) ==
    /\ ~aborted
    /\ drone.speed > 0
    /\ last_call' = Call("packet_is_expiring",
           <<cur_step, packet_is_expiring_result(drone, sim, cur_step)>>)
    /\ feedback_calls' = << >>
    /\ UNCHANGED <<sim, drone, depot, events, packets, metrics, add_hop_calls,
                   move_calls, aborted, entities, diverted_from>>

\* path[k] of the source for an index that may be -1 (the last item)
path_item(d, k) == IF k < 0 THEN d.path[Len(d.path) + k + 1] ELSE d.path[k + 1]

\* Drone.next_move_to_mission_point: the point returned, or exit(1)
next_move_to_mission_point_result(d, simulator) ==
    LET current_waypoint == IF d.current_waypoint >= Len(d.path) - 1 THEN -1
                            ELSE d.current_waypoint
        p0 == d.coords
        p1 == path_item(d, current_waypoint + 1)
        all_distance == euclidean_distance(p0, p1)
        distance == simulator.time_step_duration * d.speed
    IN IF all_distance = 0 \/ distance = 0
       THEN [point |-> path_item(d, current_waypoint), exit |-> FALSE]
       ELSE IF distance >= all_distance
       THEN [point |-> path_item(d, current_waypoint), exit |-> FALSE]
       ELSE IF distance <= 0 THEN [point |-> p0, exit |-> TRUE]
       ELSE [point |-> interpolate(p0, p1, distance, all_distance),
             exit |-> FALSE]

\* a call of Drone.next_move_to_mission_point(); the point is recorded
next_move_to_mission_point ==
    /\ ~aborted
    /\ LET r == next_move_to_mission_point_result(drone, sim)
       IN /\ aborted' = r.exit
          /\ last_call' = Call("next_move_to_mission_point", r.point)
    /\ feedback_calls' = << >>
    /\ UNCHANGED <<sim, drone, depot, events, packets, metrics, add_hop_calls,
                   move_calls, entities, diverted_from>>

\* Drone.next_target: the point returned
next_target_result(d) ==
    IF d.move_routing THEN d.depot_coords
    ELSE IF d.come_back_to_mission THEN d.last_mission_coords
    ELSE IF d.current_waypoint >= Len(d.path) - 1 THEN path_item(d, 0)
    ELSE path_item(d, d.current_waypoint + 1)

\* a call of Drone.next_target(); the point is recorded
next_target ==
    /\ ~aborted
    /\ last_call' = Call("next_target", next_target_result(drone))
    /\ feedback_calls' = << >>
    /\ UNCHANGED <<sim, drone, depot, events, packets, metrics, add_hop_calls,
                   move_calls, aborted, entities, diverted_from>>

\* Drone.is_full
is_full_result(d) == Len(d.buffer) = d.buffer_max_size

\* a call of Drone.is_full(); the answer is recorded
is_full ==
    /\ ~aborted
    /\ last_call' = Call("is_full", <<IF is_full_result(drone) THEN 1 ELSE 0>>)
    /\ feedback_calls' = << >>
    /\ UNCHANGED <<sim, drone, depot, events, packets, metrics, add_hop_calls,
                   move_calls, aborted, entities, diverted_from>>

\* ------------------------------------------------------------ Entity
\* Entity.__eq__ (both operands are entities)
Entity_eq(a, b) == b.identifier = a.identifier

\* Entity.__hash__: the hash of the pair (identifier, coords), as the key
\* that is hashed
Entity_hash(e) == <<e.identifier, e.coords[1], e.coords[2]>>

\* Drone.__hash__: the hash of the identifier
Drone_hash(d) == <<d.identifier>>

\* hash(e), dispatched on the class of e
hash_of(e) == IF e.cls = "Drone" THEN Drone_hash(e) ELSE Entity_hash(e)

EntityClasses == {"Entity", "Drone"}

EntityCoords == {<<0, 0>>, <<1, 0>>, <<2, 0>>}

\* Entity.__init__(identifier, coords), directly or through a subclass
Entity_new(cls, identifier, coords) ==
    /\ ~aborted
    /\ Len(entities) < MaxEntities
    /\ entities' = Append(entities, [cls |-> cls, identifier |-> identifier,
                                     coords |-> coords])
    /\ last_call' = Call("Entity", <<identifier, coords[1], coords[2]>>)
    /\ feedback_calls' = << >>
    /\ UNCHANGED <<sim, drone, depot, events, packets, metrics, add_hop_calls,
                   move_calls, aborted, diverted_from>>

\* an assignment to the coords of entity i, as the movement of a drone makes
Entity_set_coords(i, coords) ==
    /\ ~aborted
    /\ i \in 1 .. Len(entities)
    /\ entities' = [entities EXCEPT ![i].coords = coords]
    /\ last_call' = Call("coords", <<i, coords[1], coords[2]>>)
    /\ feedback_calls' = << >>
    /\ UNCHANGED <<sim, drone, depot, events, packets, metrics, add_hop_calls,
                   move_calls, aborted, diverted_from>>

\* lists of existing packets, as the list arguments of the handlers
PacketLists ==
    UNION {[1 .. n -> 1 .. Len(packets)] : n \in 1 .. MaxList}

\* ----------------------------------------------------- specifications
metrics_init ==
    [events |-> {}, drones_packets |-> {}, events_not_listened |-> {},
     all_data_packets_in_simulation |-> 0,
     drones_packets_to_depot |-> {}, drones_packets_to_depot_list |-> << >>,
     time_on_mission |-> 0, time_on_active_routing |-> 0]

InitFull(names, durations, paths, speeds, depots, ticks) ==
    /\ \E n \in names, du \in durations, ti \in ticks :
           sim = [routing_algorithm |-> n, event_duration |-> du,
                  time_step_duration |-> ti, drones |-> DroneIds]
    /\ \E pa \in paths, sp \in speeds, dc \in depots :
           drone = Drone_init(pa, sp, dc)
    /\ depot = [coords |-> drone.depot_coords, buffer |-> << >>]
    /\ events = << >>
    /\ packets = << >>
    /\ metrics = metrics_init
    /\ feedback_calls = << >>
    /\ add_hop_calls = << >>
    /\ move_calls = 0
    /\ last_call = Call("init", << >>)
    /\ aborted = FALSE
    /\ entities = << >>
    /\ diverted_from = NoCoords

InitWith(names, durations, paths, speeds, depots) ==
    InitFull(names, durations, paths, speeds, depots, {1})

\* buffer maintenance of one drone
InitBuffer == InitWith({GEO, QL}, {1}, {<<<<0, 0>>, <<4, 0>>>>}, {2}, {<<2, 0>>})

NextBuffer ==
    \/ \E s \in Steps : feel_event(s)
    \/ \E e \in 1 .. Len(events) : as_packet(e, events[e].current_time, Other)
    \/ \E ps \in PacketLists : accept_packets(ps)
    \/ \E ps \in PacketLists : remove_packets(ps)
    \/ \E s \in Steps : update_packets(s)

SpecBuffer == InitBuffer /\ [][NextBuffer]_vars

\* mobility of one drone: patrol, diversion to the depot and return
TimeSteps == {1, 2}

Paths == {<<<<0, 0>>, <<4, 0>>>>, <<<<0, 0>>, <<3, 0>>, <<1, 0>>>>}

InitMove == InitWith({GEO}, {1}, Paths, {1, 2, 3}, {<<0, 0>>, <<6, 0>>})

NextMove ==
    \/ \E t \in TimeSteps : move(t)
    \/ \E b \in BOOLEAN : routing(b)

SpecMove == InitMove /\ [][NextMove]_vars


\* sensing while patrolling, diverting and returning
InitFeel == InitWith({GEO}, {1}, {<<<<0, 0>>, <<4, 0>>>>}, {2}, {<<6, 0>>})

NextFeel ==
    \/ \E s \in Steps : feel_event(s)
    \/ move_calls < MaxFeelMoves /\ move(1)
    \/ \E b \in BOOLEAN : routing(b)

SpecFeel == InitFeel /\ [][NextFeel]_vars

\* the energy ledger of one drone
InitEnergy == InitWith({GEO}, {1}, {<<<<0, 0>>, <<4, 0>>>>}, {1, 3}, {<<6, 0>>})

NextEnergy ==
    \/ \E a \in 1 .. Len(EnergyActions) : Drone_decrease_energy(a)
    \/ move_calls < MaxEnergyMoves /\ move(1)
    \/ \E b \in BOOLEAN : routing(b)

SpecEnergy == InitEnergy /\ [][NextEnergy]_vars

\* entities built with chosen identifiers, and moved
InitEntity == InitWith({GEO}, {1}, {<<<<0, 0>>, <<4, 0>>>>}, {2}, {<<2, 0>>})

NextEntity ==
    \/ \E c \in EntityClasses, i \in DroneIds, xy \in EntityCoords :
           Entity_new(c, i, xy)
    \/ \E i \in 1 .. Len(entities), xy \in EntityCoords :
           Entity_set_coords(i, xy)

SpecEntity == InitEntity /\ [][NextEntity]_vars

\* the advisory test of an expiring packet
InitExpiring ==
    InitFull({GEO}, {1, 6}, {<<<<0, 0>>, <<4, 0>>>>}, {2}, {<<2, 0>>}, {1, 2})

NextExpiring ==
    \/ feel_event(0)
    \/ \E s \in Steps : update_packets(s)
    \/ \E b \in BOOLEAN : routing(b)
    \/ move_calls < MaxFeelMoves /\ move(1)
    \/ \E s \in Steps : packet_is_expiring(s)

SpecExpiring == InitExpiring /\ [][NextExpiring]_vars

\* feedback under each routing algorithm name
Names == {GEO, RND, GEOS, QL, EOR}

InitNames == InitWith(Names, {1}, {<<<<0, 0>>, <<4, 0>>>>}, {2}, {<<2, 0>>})

NextNames ==
    \/ feel_event(0)
    \/ \E s \in Steps : update_packets(s)
    \/ \E s \in Steps : transfer_notified_packets(s)

SpecNames == InitNames /\ [][NextNames]_vars

\* movement with speeds and ticks that may be zero
InitAbort == InitWith({GEO}, {1}, Paths, {0, 1, 2}, {<<0, 0>>, <<6, 0>>})

NextAbort ==
    \/ \E t \in {0, 1, 2} : move(t)
    \/ \E b \in BOOLEAN : routing(b)

SpecAbort == InitAbort /\ [][NextAbort]_vars

\* eviction of expired packets while the strategy asks for a diversion
InitEvict == InitWith({GEO}, {1}, {<<<<0, 0>>, <<4, 0>>>>}, {2}, {<<6, 0>>})

NextEvict ==
    \/ feel_event(0)
    \/ \E s \in Steps : update_packets(s)
    \/ \E b \in BOOLEAN : routing(b)
    \/ move_calls < MaxFeelMoves /\ move(1)

SpecEvict == InitEvict /\ [][NextEvict]_vars

\* the answers about the next move, and the move that follows
InitPredict == InitFull({GEO}, {1}, Paths, {1, 2, 3}, {<<6, 0>>}, {1, 2})

NextPredict ==
    \/ next_move_to_mission_point
    \/ next_target
    \/ move(sim.time_step_duration)
    \/ \E b \in BOOLEAN : routing(b)

SpecPredict == InitPredict /\ [][NextPredict]_vars

\* the buffer against its capacity
InitCapacity == InitWith({GEO}, {1}, {<<<<0, 0>>, <<4, 0>>>>}, {2}, {<<2, 0>>})

NextCapacity ==
    \/ \E s \in Steps : feel_event(s)
    \/ \E e \in 1 .. Len(events) : as_packet(e, events[e].current_time, Other)
    \/ \E ps \in PacketLists : accept_packets(ps)
    \/ \E ps \in PacketLists : remove_packets(ps)
    \/ \E s \in Steps : update_packets(s)
    \/ empty_buffer
    \/ is_full

SpecCapacity == InitCapacity /\ [][NextCapacity]_vars

\* the round trip to the depot of a drone that is moved once per tick; the
\* simulation loop calls move() for every drone at every step, so a move
\* that can be made is eventually made
InitRoundTrip ==
    InitWith({GEO}, {1}, {<<<<4, 0>>, <<0, 0>>>>}, {2}, {<<1, 0>>})

NextRoundTrip ==
    \/ move_calls < MaxTripMoves /\ move_tick(1)
    \/ \E b \in BOOLEAN : routing(b)

SpecRoundTrip ==
    /\ InitRoundTrip
    /\ [][NextRoundTrip]_vars
    /\ WF_vars(move_calls < MaxTripMoves /\ move_tick(1))

\* offloading to the depot
InitDepot == InitWith({GEO, QL}, {1}, {<<<<0, 0>>, <<4, 0>>>>}, {2}, {<<2, 0>>})

NextDepot ==
    \/ feel_event(0)
    \/ \E s \in Steps : transfer_notified_packets(s)
    \/ empty_buffer

SpecDepot == InitDepot /\ [][NextDepot]_vars

\* the life of one event and of one packet built for it
Deadlines == {None} \cup {Num(s) : s \in Steps}

Hops == {Self, Other}

InitPacket == InitWith({GEO}, {1, 2}, {<<<<0, 0>>, <<4, 0>>>>}, {2}, {<<2, 0>>})

NextPacket ==
    \/ events = << >> /\ \E t \in Steps, dl \in Deadlines :
           Event_new(<<1, 0>>, t, dl)
    \/ packets = << >> /\ \E d \in Hops : as_packet(1, events[1].current_time, d)
    \/ packets = << >> /\ \E t \in Steps : DataPacket_new(t, 1)
    \/ \E d \in Hops : add_hop(1, d)
    \/ \E dl \in {0, 1} : decrease_deadline(1, dl)
    \/ \E s \in 0 .. (MaxStep + 3) : is_expired(1, s)

SpecPacket == InitPacket /\ [][NextPacket]_vars


\* ---------------------------------------------------------------------
\* The claims.  deadline_of(p) is the deadline of the event of packet p.
deadline_of(evs, pcks, p) == evs[pcks[p].event_ref].deadline

in_buffer(buf, p) == \E i \in 1 .. Len(buf) : buf[i] = p

\* the entries of buf whose deadline is at least lo, in their order
RECURSIVE with_deadline_from(_, _, _, _)
with_deadline_from(evs, pcks, buf, lo) ==
    IF buf = << >> THEN << >>
    ELSE (IF deadline_of(evs, pcks, Head(buf)) >= lo THEN <<Head(buf)>>
          ELSE << >>)
         \o with_deadline_from(evs, pcks, Tail(buf), lo)

\* C1 as stated: update_packets(step) removes exactly the packets whose
\* deadline is < step + 1 (deadline <= step) and keeps the others in order.
C1_removes_deadline_le_step ==
    [][last_call'.op = "update_packets" =>
          drone'.buffer = with_deadline_from(events, packets, drone.buffer,
                                             last_call'.arg[1] + 1)]_vars

\* C1 amended: update_packets(step) removes exactly the packets whose
\* deadline is < step (a packet whose deadline equals step is kept) and
\* keeps every other packet, in its original order.
C1_removes_deadline_lt_step ==
    [][last_call'.op = "update_packets" =>
          /\ drone'.buffer = with_deadline_from(events, packets, drone.buffer,
                                                last_call'.arg[1])
          /\ events' = events
          /\ packets' = packets]_vars

\* update_packets(step) has run, keeping a packet whose deadline equals step
\* ahead of a younger one, while a packet it has dropped is expired
C1_witness ==
    /\ last_call.op = "update_packets"
    /\ Len(drone.buffer) >= 1
    /\ deadline_of(events, packets, drone.buffer[1]) = last_call.arg[1]
    /\ \E p \in 1 .. Len(packets) :
           /\ ~in_buffer(drone.buffer, p)
           /\ packets[p].last_2_hops = <<Self>>
           /\ deadline_of(events, packets, p) < last_call.arg[1]

\* C2: right after update_packets, tightest_event_deadline is the minimum
\* deadline over the packets in the buffer, and it is the not-a-number
\* value exactly when the buffer is empty.
C2_tightest_is_minimum ==
    last_call.op = "update_packets" =>
        /\ (drone.tightest_event_deadline = NaN) <=> (drone.buffer = << >>)
        /\ drone.buffer # << >> =>
             /\ drone.tightest_event_deadline.tag = "num"
             /\ \E i \in 1 .. Len(drone.buffer) :
                    deadline_of(events, packets, drone.buffer[i])
                        = drone.tightest_event_deadline.val
             /\ \A i \in 1 .. Len(drone.buffer) :
                    deadline_of(events, packets, drone.buffer[i])
                        >= drone.tightest_event_deadline.val

\* update_packets has kept two packets, the later one with the tighter deadline
C2_witness ==
    /\ last_call.op = "update_packets"
    /\ Len(drone.buffer) >= 2
    /\ deadline_of(events, packets, drone.buffer[2])
           < deadline_of(events, packets, drone.buffer[1])
    /\ drone.tightest_event_deadline
           = Num(deadline_of(events, packets, drone.buffer[2]))

\* the buffer buf followed by the first packet of each event of ps that
\* is not yet in it
RECURSIVE first_of_each_event(_, _, _)
first_of_each_event(pcks, buf, ps) ==
    IF ps = << >> THEN buf
    ELSE first_of_each_event(pcks,
             IF \E i \in 1 .. Len(buf) :
                    pcks[buf[i]].event_ref = pcks[Head(ps)].event_ref
             THEN buf ELSE Append(buf, Head(ps)),
             Tail(ps))

no_two_of_one_event ==
    \A i, j \in 1 .. Len(drone.buffer) :
        i # j => packets[drone.buffer[i]].event_ref
                     # packets[drone.buffer[j]].event_ref

\* C3: the buffer never holds two entries of one event; accept_packets
\* appends, in order, one packet for each event of its list that the
\* buffer does not hold yet, and nothing for an event it holds.
C3_one_entry_per_event ==
    /\ []no_two_of_one_event
    /\ [][last_call'.op = "accept_packets" =>
             /\ \E ps \in PacketLists :
                    /\ Len(ps) = last_call'.arg[1]
                    /\ repeated_events(packets, drone.buffer, ps)
                           = last_call'.arg[2]
                    /\ drone'.buffer
                           = first_of_each_event(packets, drone.buffer, ps)
             /\ Len(drone'.buffer)
                    = Len(drone.buffer) + last_call'.arg[1] - last_call'.arg[2]
             /\ SubSeq(drone'.buffer, 1, Len(drone.buffer)) = drone.buffer]_vars

\* accept_packets has run on a list of two packets that both name an event
\* the buffer holds, and a second packet of that event stays outside
C3_witness ==
    /\ last_call.op = "accept_packets"
    /\ last_call.arg = <<2, 2>>
    /\ \E i \in 1 .. Len(drone.buffer), q \in 1 .. Len(packets) :
           /\ q # drone.buffer[i]
           /\ same_event(packets, q, drone.buffer[i])
           /\ ~in_buffer(drone.buffer, q)


\* C4: feel_event(step) builds one event at the drone's coords and one
\* packet for it (created at step, first hop this drone, TTL 0); a drone
\* that is ON_MISSION appends the packet to its buffer and leaves the
\* missed events alone, any other drone leaves its buffer alone and adds
\* the event to the missed events.
C4_feel_event_keeps_or_misses ==
    [][last_call'.op = "feel_event" =>
          LET e == Len(events')
              p == Len(packets')
              step == last_call'.arg[1]
          IN /\ events' = Append(events,
                    [coords |-> drone.coords, current_time |-> step,
                     deadline |-> step + sim.event_duration])
             /\ Len(packets') = Len(packets) + 1
             /\ SubSeq(packets', 1, Len(packets)) = packets
             /\ packets'[p].event_ref = e
             /\ packets'[p].time_step_creation = step
             /\ packets'[p].TTL = 0
             /\ packets'[p].last_2_hops = <<drone.identifier>>
             /\ IF ~drone.move_routing /\ ~drone.come_back_to_mission
                THEN /\ drone' = [drone EXCEPT !.buffer = Append(drone.buffer, p)]
                     /\ metrics'.events_not_listened = metrics.events_not_listened
                ELSE /\ drone' = drone
                     /\ metrics'.events_not_listened
                            = metrics.events_not_listened \cup {e}]_vars

\* feel_event has run on a drone that is returning to its mission, after an
\* earlier event was kept: the new event is missed, the buffer holds the old
C4_witness ==
    /\ last_call.op = "feel_event"
    /\ RETURNING_TO_MISSION(drone)
    /\ Len(events) \in metrics.events_not_listened
    /\ Len(drone.buffer) = 1
    /\ ~in_buffer(drone.buffer, Len(packets))

\* distance of two points of one axis-parallel line
gap(p, q) == Abs(p[1] - q[1]) + Abs(p[2] - q[2])

\* from a to b is a move of length min(step, distance left) toward target
toward(a, b, target, step) ==
    LET len == Min2(step, gap(a, target))
    IN /\ gap(a, b) = len
       /\ gap(b, target) = gap(a, target) - len

\* the waypoint a patrolling drone heads for, and its index in the path
next_index(d) ==
    IF d.current_waypoint >= Len(d.path) - 1 THEN 0 ELSE d.current_waypoint + 1
next_waypoint(d) == d.path[next_index(d) + 1]

\* C5: a drone that is ON_MISSION at p when it is told to divert records p
\* and moves toward the depot; once move_routing is off again every tick
\* moves it toward p, come_back_to_mission is cleared on the tick that
\* puts it exactly on p, and all along the waypoint it heads for stays
\* the one of the interrupted leg.
C5_divert_and_return ==
    [][/\ last_call'.op = "routing" =>
             /\ drone'.coords = drone.coords
             /\ drone'.current_waypoint = drone.current_waypoint
             /\ drone'.last_mission_coords = drone.last_mission_coords
       /\ (last_call'.op = "move" /\ ~aborted') =>
             LET step == drone.speed * last_call'.arg[1]
             IN /\ (/\ drone.move_routing
                    /\ ~drone.last_move_routing
                    /\ ~drone.come_back_to_mission) =>
                      /\ drone'.last_mission_coords = drone.coords
                      /\ toward(drone.coords, drone'.coords,
                                drone.depot_coords, step)
                      /\ next_waypoint(drone') = next_waypoint(drone)
                /\ (/\ ~drone.move_routing
                    /\ drone.last_move_routing \/ drone.come_back_to_mission) =>
                      /\ drone'.last_mission_coords = drone.last_mission_coords
                      /\ toward(drone.coords, drone'.coords,
                                drone.last_mission_coords, step)
                      /\ drone'.come_back_to_mission
                             <=> (drone'.coords # drone.last_mission_coords)
                      /\ ~drone'.move_routing
                      /\ next_waypoint(drone') = next_waypoint(drone)]_vars

\* the drone has diverted from a point inside a leg, has come back to exactly
\* that point and is ON_MISSION again
C5_witness ==
    /\ last_call.op = "move"
    /\ ON_MISSION(drone)
    /\ ~drone.last_move_routing
    /\ metrics.time_on_active_routing >= 2
    /\ drone.coords = drone.last_mission_coords
    /\ drone.coords # drone.depot_coords
    /\ \A k \in 1 .. Len(drone.path) : drone.path[k] # drone.coords

\* C6: a tick of a drone that is ON_MISSION with positive speed moves it by
\* speed * time toward the next waypoint of the cyclic path; when that
\* waypoint is within speed * time the drone lands exactly on it and the
\* index advances to it, wrapping to 0 after the last waypoint.
C6_patrol_in_cyclic_order ==
    [][(/\ last_call'.op = "move"
        /\ ON_MISSION(drone)
        /\ ~drone.last_move_routing
        /\ drone.speed > 0
        /\ last_call'.arg[1] > 0) =>
          LET step == drone.speed * last_call'.arg[1]
              w == next_waypoint(drone)
          IN /\ ~aborted'
             /\ ON_MISSION(drone')
             /\ toward(drone.coords, drone'.coords, w, step)
             /\ IF gap(drone.coords, w) <= step
                THEN /\ drone'.coords = w
                     /\ drone'.current_waypoint = next_index(drone)
                ELSE /\ next_waypoint(drone') = w
                     /\ drone'.coords # w]_vars

\* path [(0,0),(4,0)], speed 2: after three ticks on mission the drone has
\* been on (4,0) and is at (2,0), heading back for (0,0)
C6_witness ==
    /\ last_call.op = "move"
    /\ drone.path = <<<<0, 0>>, <<4, 0>>>>
    /\ drone.speed = 2
    /\ move_calls = 3
    /\ metrics.time_on_mission = 3
    /\ metrics.time_on_active_routing = 0
    /\ drone.coords = <<2, 0>>
    /\ next_waypoint(drone) = <<0, 0>>

\* C7: transfer_notified_packets(drone, step) stamps time_delivery = step
\* on every packet of the drone's buffer, on no other packet, and appends
\* one (packet, step) entry per buffered packet to the chronological list,
\* whether or not the packet was offloaded before.
C7_offload_stamps_and_lists ==
    [][last_call'.op = "transfer_notified_packets" =>
          LET step == last_call'.arg[1]
          IN /\ Len(packets') = Len(packets)
             /\ \A p \in 1 .. Len(packets) :
                    IF in_buffer(drone.buffer, p)
                    THEN packets'[p] =
                             [packets[p] EXCEPT !.time_delivery = Num(step)]
                    ELSE packets'[p] = packets[p]
             /\ metrics'.drones_packets_to_depot_list
                    = metrics.drones_packets_to_depot_list
                      \o [i \in 1 .. Len(drone.buffer) |->
                             <<drone.buffer[i], step>>]]_vars

\* the chronological list holds one packet twice with the same step
C7_witness ==
    /\ last_call.op = "transfer_notified_packets"
    /\ drone.buffer # << >>
    /\ \E i, j \in 1 .. Len(metrics.drones_packets_to_depot_list) :
           /\ i < j
           /\ metrics.drones_packets_to_depot_list[i]
                  = metrics.drones_packets_to_depot_list[j]
           /\ metrics.drones_packets_to_depot_list[j][2] = last_call.arg[1]

\* C8: transfer_notified_packets appends the drone's buffer, in order and
\* with duplicates, to the depot log and leaves the drone as it was; no
\* step ever removes or reorders an entry of the depot log.
C8_depot_log_grows ==
    [][/\ Len(depot'.buffer) >= Len(depot.buffer)
       /\ SubSeq(depot'.buffer, 1, Len(depot.buffer)) = depot.buffer
       /\ last_call'.op = "transfer_notified_packets" =>
             /\ depot'.buffer = depot.buffer \o drone.buffer
             /\ drone' = drone]_vars

\* the depot log holds a packet twice and the drone still holds it
C8_witness ==
    /\ last_call.op = "transfer_notified_packets"
    /\ \E i, j \in 1 .. Len(depot.buffer) :
           /\ i < j
           /\ depot.buffer[i] = depot.buffer[j]
           /\ in_buffer(drone.buffer, depot.buffer[i])

\* the last k entries of the sequence q
last_entries(q, k) == SubSeq(q, Len(q) - k + 1, Len(q))

\* C9: a packet that add_hop was called on n times has TTL n - 1 and keeps
\* in last_2_hops the last min(n, 2) drones in order; the packet that
\* as_packet returns has TTL 0.
C9_ttl_counts_hops ==
    /\ \A p \in 1 .. Len(packets) :
           LET n == Len(add_hop_calls[p])
           IN /\ get_TTL(p) = n - 1
              /\ packets[p].last_2_hops = last_entries(add_hop_calls[p], Min2(n, 2))
    /\ last_call.op = "as_packet" => get_TTL(Len(packets)) = 0

\* a packet has been through three hops, the first of them now forgotten
C9_witness ==
    /\ last_call.op = "add_hop"
    /\ Len(add_hop_calls[1]) = 3
    /\ add_hop_calls[1][1] # add_hop_calls[1][2]
    /\ packets[1].last_2_hops = <<add_hop_calls[1][2], add_hop_calls[1][3]>>

\* C10: is_expired(step) answers true exactly for step > deadline, and an
\* event built without a deadline has deadline = current_time + the
\* configured event duration.
C10_expired_after_deadline ==
    /\ last_call.op = "is_expired" =>
           (last_call.arg[3] = 1)
               <=> (last_call.arg[2] > events[last_call.arg[1]].deadline)
    /\ (last_call.op = "Event" /\ last_call.arg = << >>) =>
           events[Len(events)].deadline
               = events[Len(events)].current_time + sim.event_duration

\* is_expired was asked at the deadline itself of an event of duration 2 and
\* answered no
C10_witness ==
    /\ last_call.op = "is_expired"
    /\ packets = << >>
    /\ sim.event_duration = 2
    /\ events[1].deadline = events[1].current_time + 2
    /\ last_call.arg = <<1, events[1].deadline, 0>>

\* ---------------------------------------------------------------- C11
energy_total(d) ==
    d.residual_energy + d.accumulated_moving_energy
    + d.accumulated_hello_energy + d.accumulated_send_energy

\* the ledger of d1 is that of d0 after one charge of cost to counter c
charged(d0, d1, c, cost) ==
    /\ d1.residual_energy = d0.residual_energy - cost
    /\ d1.accumulated_send_energy =
           d0.accumulated_send_energy + (IF c = "send" THEN cost ELSE 0)
    /\ d1.accumulated_moving_energy =
           d0.accumulated_moving_energy + (IF c = "moving" THEN cost ELSE 0)
    /\ d1.accumulated_hello_energy =
           d0.accumulated_hello_energy + (IF c = "hello" THEN cost ELSE 0)
    /\ d1.initial_energy = d0.initial_energy

\* C11: after any sequence of decrease_energy and move calls the residual
\* energy plus the three accumulated counters equals initial_energy; each
\* decrease_energy subtracts its cost (100, speed*100, 10) from the residual
\* energy, without clamping at zero, and adds it to the matching counter
\* only; each move() that completes charges exactly one 'move' cost.
C11_energy_is_conserved ==
    /\ [](energy_total(drone) = drone.initial_energy)
    /\ [][/\ last_call'.op = "decrease_energy" =>
               LET a == EnergyActions[last_call'.arg[1]]
               IN IF a = "transmission" THEN charged(drone, drone', "send", 100)
                  ELSE IF a = "move"
                  THEN charged(drone, drone', "moving", drone.speed * 100)
                  ELSE IF a = "hello" THEN charged(drone, drone', "hello", 10)
                  ELSE drone' = drone
           /\ (last_call'.op = "move" /\ ~aborted') =>
               charged(drone, drone', "moving", drone.speed * 100)]_vars

\* the residual energy has gone below zero after charges of all three kinds,
\* the last of them made by move()
C11_witness ==
    /\ last_call.op = "move"
    /\ drone.residual_energy < 0
    /\ drone.accumulated_moving_energy > 0
    /\ drone.accumulated_hello_energy > 0
    /\ drone.accumulated_send_energy > 0

\* ---------------------------------------------------------------- C12
\* C12: equality and hashing of entities are both decided by the identifier
\* alone: two entities with the same identifier compare equal and have the
\* same hash whatever their coords, also after the coords of one change.
C12_eq_and_hash_by_identifier ==
    \A i, j \in 1 .. Len(entities) :
        /\ Entity_eq(entities[i], entities[j])
               <=> (entities[i].identifier = entities[j].identifier)
        /\ (entities[i].identifier = entities[j].identifier)
               => hash_of(entities[i]) = hash_of(entities[j])

\* ---------------------------------------------------------------- C13
\* the time left to the tightest deadline, R, once that deadline is a number
time_to_dead(d, simulator, cur_step) ==
    (d.tightest_event_deadline.val - cur_step) * simulator.time_step_duration

has_deadline(d) ==
    d.tightest_event_deadline # None /\ d.tightest_event_deadline # NaN

\* C13 as stated: packet_is_expiring(step) returns true exactly when the
\* travel time distance_from_depot / speed lies in the closed interval
\* [R - 5, R], and it changes no drone state.
C13_expiring_in_closed_interval ==
    [][last_call'.op = "packet_is_expiring" =>
          /\ drone' = drone
          /\ (last_call'.arg[2] = 1) <=>
                 /\ has_deadline(drone)
                 /\ LET R == time_to_dead(drone, sim, last_call'.arg[1])
                    IN /\ (R - 5) * drone.speed <= drone.distance_from_depot
                       /\ drone.distance_from_depot <= R * drone.speed]_vars

\* C13 amended: packet_is_expiring(step) returns true exactly when the
\* travel time lies in the half-open interval (R - 5, R]: R itself is
\* included, R - 5 is not; and it changes no drone state.
C13_expiring_in_half_open_interval ==
    [][last_call'.op = "packet_is_expiring" =>
          /\ drone' = drone
          /\ (last_call'.arg[2] = 1) <=>
                 /\ has_deadline(drone)
                 /\ LET R == time_to_dead(drone, sim, last_call'.arg[1])
                    IN /\ (R - 5) * drone.speed < drone.distance_from_depot
                       /\ drone.distance_from_depot <= R * drone.speed]_vars

\* packet_is_expiring answered true for a drone that is away from the depot
\* and whose travel time is R itself
C13_witness ==
    /\ last_call.op = "packet_is_expiring"
    /\ last_call.arg[2] = 1
    /\ has_deadline(drone)
    /\ drone.distance_from_depot > 0
    /\ drone.distance_from_depot
           = time_to_dead(drone, sim, last_call.arg[1]) * drone.speed

\* ---------------------------------------------------------------- C14
\* the positions of buf whose packet has expired at step and belongs to
\* event e
expired_of_event(evs, pcks, buf, step, e) ==
    {i \in 1 .. Len(buf) :
        /\ pcks[buf[i]].event_ref = e
        /\ step > evs[e].deadline}

\* the positions of the calls fb that went to drone k about event e
calls_to(fb, k, e) ==
    {i \in 1 .. Len(fb) : fb[i].to = k /\ fb[i].id_event = e}

\* C14: under an adaptive routing family (here QL), update_packets(step)
\* calls feedback once per expired packet on the strategy of every drone of
\* the simulation, with the owning drone, the packet's event identifier,
\* delay = the configured event duration, outcome -1 and reward -100;
\* retained packets trigger no call.
C14_expiry_feedback_to_every_drone ==
    [][(last_call'.op = "update_packets" /\ sim.routing_algorithm = QL) =>
          /\ \A i \in 1 .. Len(feedback_calls') :
                 /\ feedback_calls'[i].to \in sim.drones
                 /\ feedback_calls'[i].drone = drone.identifier
                 /\ feedback_calls'[i].delay = sim.event_duration
                 /\ feedback_calls'[i].outcome = -1
                 /\ feedback_calls'[i].reward = -100
          /\ \A k \in sim.drones, e \in 1 .. Len(events) :
                 Cardinality(calls_to(feedback_calls', k, e))
                     = Cardinality(expired_of_event(events, packets,
                           drone.buffer, last_call'.arg[1], e))]_vars

\* under QL, update_packets has dropped one packet and kept another: every
\* drone got one call, about the dropped packet's event
C14_witness ==
    /\ last_call.op = "update_packets"
    /\ sim.routing_algorithm = QL
    /\ Len(drone.buffer) = 1
    /\ Len(feedback_calls) = NumDrones
    /\ \A k \in sim.drones :
           \E i \in 1 .. Len(feedback_calls) :
               /\ feedback_calls[i].to = k
               /\ feedback_calls[i].id_event
                      # packets[drone.buffer[1]].event_ref

\* ---------------------------------------------------------------- C15
\* the packets of buf that update_packets(step) drops
expired_in(evs, pcks, buf, step) ==
    {i \in 1 .. Len(buf) : step > evs[pcks[buf[i]].event_ref].deadline}

\* every drone of the simulation got calls calls, and nobody else any
every_drone_called(fb, drones, calls) ==
    /\ \A k \in drones :
           Cardinality({i \in 1 .. Len(fb) : fb[i].to = k}) = calls
    /\ \A i \in 1 .. Len(fb) : fb[i].to \in drones

\* C15: the feedback broadcast (negative on expiry in update_packets,
\* positive on delivery in transfer_notified_packets) is skipped if and only
\* if the routing algorithm's name is one of exactly GEO, RND, GEOS; under
\* every other name every drone's strategy gets the call.
C15_skipped_for_three_names_only ==
    [][/\ last_call'.op = "update_packets" =>
            LET n == Cardinality(expired_in(events, packets, drone.buffer,
                                            last_call'.arg[1]))
            IN IF sim.routing_algorithm \in {GEO, RND, GEOS}
               THEN feedback_calls' = << >>
               ELSE every_drone_called(feedback_calls', sim.drones, n)
       /\ last_call'.op = "transfer_notified_packets" =>
            IF sim.routing_algorithm \in {GEO, RND, GEOS}
            THEN feedback_calls' = << >>
            ELSE every_drone_called(feedback_calls', sim.drones,
                                    Len(drone.buffer))]_vars

\* ---------------------------------------------------------------- C16
\* C16: move(time) aborts the run only when the interpolation fraction
\* speed*time / distance is negative; with a non-negative speed and a
\* non-negative tick it completes in all three mobility states.
C16_aborts_only_on_negative_fraction ==
    [][(last_call'.op = "move" /\ aborted') =>
          drone.speed * last_call'.arg[1] < 0]_vars

\* ---------------------------------------------------------------- C17
\* C17: once a diversion has displaced the drone, every move() tick made
\* with move_routing off (whoever cleared it: the strategy, update_packets
\* or move() itself at the depot) is a tick of RETURNING_TO_MISSION: it
\* moves the drone toward last_mission_coords and leaves
\* come_back_to_mission set until the drone is exactly there; the drone
\* does not patrol toward a path waypoint before that.
C17_returns_after_every_diversion ==
    [][(/\ last_call'.op = "move"
        /\ ~aborted'
        /\ ~drone.move_routing
        /\ diverted_from # NoCoords) =>
          /\ toward(drone.coords, drone'.coords, drone.last_mission_coords,
                    drone.speed * last_call'.arg[1])
          /\ drone'.come_back_to_mission
                 <=> (drone'.coords # drone.last_mission_coords)]_vars

\* ---------------------------------------------------------------- C18
\* C18: after update_packets an empty buffer implies move_routing = false;
\* with a non-empty buffer move_routing keeps its value; and
\* come_back_to_mission, last_move_routing, coords and current_waypoint
\* are not changed by update_packets.
C18_empty_buffer_ends_diversion ==
    [][last_call'.op = "update_packets" =>
          /\ (drone'.buffer = << >>) => ~drone'.move_routing
          /\ (drone'.buffer # << >>) =>
                 (drone'.move_routing = drone.move_routing)
          /\ drone'.come_back_to_mission = drone.come_back_to_mission
          /\ drone'.last_move_routing = drone.last_move_routing
          /\ drone'.coords = drone.coords
          /\ drone'.current_waypoint = drone.current_waypoint]_vars

\* update_packets has emptied the buffer of a drone that was on its way to
\* the depot, and has cleared its move_routing
C18_witness ==
    /\ last_call.op = "update_packets"
    /\ last_call.arg[2] = 1
    /\ drone.buffer = << >>
    /\ ~drone.move_routing
    /\ drone.last_move_routing
    /\ drone.coords # drone.last_mission_coords

\* ---------------------------------------------------------------- C19
\* C19: for a drone ON_MISSION, next_move_to_mission_point() returns the
\* coordinates that the next move(time_step_duration) assigns to the drone,
\* also on the tick that reaches a waypoint and on the tick that wraps the
\* path; the call changes neither coords nor current_waypoint.
C19_predicts_the_next_position ==
    [][/\ last_call'.op = "next_move_to_mission_point" => drone' = drone
       /\ (/\ last_call.op = "next_move_to_mission_point"
           /\ ON_MISSION(drone)
           /\ last_call'.op = "move"
           /\ last_call'.arg[1] = sim.time_step_duration
           /\ ~aborted') =>
             drone'.coords = last_call.arg]_vars

\* ---------------------------------------------------------------- C20
\* C20: next_target() returns the point toward which the next move() moves
\* the drone: the depot when diverting, last_mission_coords when the next
\* move returns to the mission, the next cyclic waypoint otherwise.
C20_target_of_the_next_move ==
    [][(/\ last_call.op = "next_target"
        /\ last_call'.op = "move"
        /\ ~aborted') =>
          toward(drone.coords, drone'.coords, last_call.arg,
                 drone.speed * last_call'.arg[1])]_vars

\* ---------------------------------------------------------------- C21
\* C21: every move() call increments exactly one of time_on_mission and
\* time_on_active_routing (active routing when the drone is diverting or
\* coming back to its mission, mission otherwise), so the two counters add
\* up to the number of move() calls.
C21_one_counter_per_move ==
    [][(last_call'.op = "move" /\ ~aborted') =>
          LET active == drone.move_routing \/ drone.come_back_to_mission
          IN /\ metrics'.time_on_active_routing
                    = metrics.time_on_active_routing + (IF active THEN 1 ELSE 0)
             /\ metrics'.time_on_mission
                    = metrics.time_on_mission + (IF active THEN 0 ELSE 1)
             /\ metrics'.time_on_mission + metrics'.time_on_active_routing
                    = move_calls']_vars

\* ---------------------------------------------------------------- C22
\* C22: is_full() returns true whenever the buffer holds at least
\* buffer_max_size packets; as no insertion is refused on capacity, it stays
\* true from the moment the buffer reaches buffer_max_size until a packet
\* is removed.
C22_full_at_or_over_capacity ==
    last_call.op = "is_full" =>
        ((last_call.arg[1] = 1)
            <=> (Len(drone.buffer) >= drone.buffer_max_size))

\* ---------------------------------------------------------------- C23
\* enough move() calls are left for a whole round trip: with the positions
\* in 0 .. 4 and speed 2 a leg takes at most two calls, so TripTicks calls
\* cover the way to the depot, the turn and the way back
ticks_left == move_calls + TripTicks <= MaxTripMoves

====
